---------------------------- MODULE Spec2Model ----------------------------
(***************************************************************************)
(* A model of todo_app.py: the Task / DeadlineTask records, the            *)
(* TaskManager store with its JSON file, and the TodoApp handlers that     *)
(* drive the store and rebuild the list view.                              *)
(*                                                                         *)
(* A Python str is a sequence of one-character strings, <<"a", "b">> for   *)
(* "ab", so that strip(), lower(), the substring test, strptime() and      *)
(* strftime() are computed character by character as Python computes them. *)
(* The JSON file is held as the value json.load() returns for it: a        *)
(* sequence of dicts, each dict a function from key to value.              *)
(***************************************************************************)
EXTENDS Integers, Sequences, FiniteSets, TLC

VARIABLES
    tasks,      \* TaskManager._tasks: the in-memory sequence of DeadlineTask
    file,       \* tasks.json: [kind |-> "absent" | "json" | "garbage", data]
    now,        \* the value datetime.now() returns: [y, m, d, tod]
    search,     \* TodoApp._search_var: the text of the search entry
    tree,       \* TodoApp._tree: the rows of the Treeview, in display order
    status,     \* TodoApp._status_var and TodoApp._progress
    last,       \* the handler or method that ran last: [op, index, wrote]
    failures,   \* how many file writes have failed so far
    deleted,    \* history: the ids of the tasks deleted so far (SpecIds)
    dialogs,    \* the open edit dialog, if there is one: the task object
                \* its save_changes holds, as [at, task]: its index in
                \* tasks (-1 once it has been popped from the list) and
                \* its id
    pending,    \* the call of _delete_task waiting in askyesno, if there
                \* is one: its locals [index, task], the index it read
                \* from the selection and the id of tasks[index]
    shared      \* which positions of _tasks hold one and the same task
                \* object: a set of sets of positions (from 1), each of two
                \* or more positions; empty while every position holds an
                \* object of its own

vars == <<tasks, file, now, search, tree, status, last, failures, deleted,
          dialogs, pending, shared>>

(***************************************************************************)
(* Bounds of the model.                                                    *)
(***************************************************************************)
MaxTasks == 2
MaxWriteFailures == 1
MaxQueryTasks == 2
MaxSummaryTasks == 6
MaxDays == 4

\* An id the bounded store can reach: at most MaxTasks tasks at a time.
MaxId == MaxTasks + 1

(***************************************************************************)
(* Python str operations.                                                  *)
(***************************************************************************)
Digits == <<"0", "1", "2", "3", "4", "5", "6", "7", "8", "9">>

IsDigit(c) == \E i \in 1..10 : Digits[i] = c

DigitVal(c) == (CHOOSE i \in 1..10 : Digits[i] = c) - 1

\* str.isspace() of one character, over the characters the model uses.
IsSpace(c) == c = " "

\* str.lower() of one character, over the characters the model uses.
LowerChar(c) ==
    CASE c = "A" -> "a"
      [] c = "B" -> "b"
      [] c = "K" -> "k"
      [] c = "U" -> "u"
      [] OTHER -> c

\* str.lower()
Lower(s) == [i \in 1..Len(s) |-> LowerChar(s[i])]

\* str.strip(): drops the leading and the trailing whitespace.
Strip(s) ==
    LET keep == {i \in 1..Len(s) : ~IsSpace(s[i])}
    IN  IF keep = {} THEN << >>
        ELSE LET lo == CHOOSE i \in keep : \A j \in keep : i <= j
                 hi == CHOOSE i \in keep : \A j \in keep : i >= j
             IN  SubSeq(s, lo, hi)

\* needle in hay
Contains(hay, needle) ==
    \E i \in 1..(Len(hay) - Len(needle) + 1) :
        SubSeq(hay, i, i + Len(needle) - 1) = needle

\* str(n) for n >= 0
RECURSIVE IntToStr(_)
IntToStr(n) ==
    IF n < 10 THEN <<Digits[n + 1]>>
    ELSE Append(IntToStr(n \div 10), Digits[(n % 10) + 1])

\* int(s) for a string of decimal digits
RECURSIVE StrToInt(_)
StrToInt(s) ==
    IF Len(s) = 0 THEN 0
    ELSE 10 * StrToInt(SubSeq(s, 1, Len(s) - 1)) + DigitVal(s[Len(s)])

\* n written with at least w digits, zero-padded on the left (%02d, %04d)
RECURSIVE Pad(_, _)
Pad(s, w) == IF Len(s) >= w THEN s ELSE Pad(<<"0">> \o s, w)

(***************************************************************************)
(* datetime: the calendar, strftime("%Y-%m-%d") and                        *)
(* strptime(s, "%d-%m-%Y").                                                *)
(***************************************************************************)
IsLeap(y) == (y % 4 = 0) /\ ((y % 100 # 0) \/ (y % 400 = 0))

DaysInMonth(y, m) ==
    IF m = 2 THEN (IF IsLeap(y) THEN 29 ELSE 28)
    ELSE IF m \in {4, 6, 9, 11} THEN 30 ELSE 31

RECURSIVE DaysBeforeMonth(_, _)
DaysBeforeMonth(y, m) ==
    IF m = 1 THEN 0 ELSE DaysBeforeMonth(y, m - 1) + DaysInMonth(y, m - 1)

\* date.toordinal(): the days from 0001-01-01, which is day 1.
ToOrdinal(y, m, d) ==
    LET p == y - 1
    IN  365 * p + (p \div 4) - (p \div 100) + (p \div 400)
        + DaysBeforeMonth(y, m) + d

\* datetime.now().strftime("%Y-%m-%d")
Strftime(t) ==
    Pad(IntToStr(t.y), 4) \o <<"-">> \o Pad(IntToStr(t.m), 2)
        \o <<"-">> \o Pad(IntToStr(t.d), 2)

AllDigits(s) == \A i \in 1..Len(s) : IsDigit(s[i])

\* %d: 3[0-1] | [1-2]\d | 0[1-9] | [1-9] | " "[1-9]
MatchesDay(s) ==
    \/ Len(s) = 2 /\ s[1] = "3" /\ s[2] \in {"0", "1"}
    \/ Len(s) = 2 /\ s[1] \in {"1", "2"} /\ IsDigit(s[2])
    \/ Len(s) = 2 /\ s[1] \in {"0", " "} /\ IsDigit(s[2]) /\ s[2] # "0"
    \/ Len(s) = 1 /\ IsDigit(s[1]) /\ s[1] # "0"

\* %m: 1[0-2] | 0[1-9] | [1-9]
MatchesMonth(s) ==
    \/ Len(s) = 2 /\ s[1] = "1" /\ s[2] \in {"0", "1", "2"}
    \/ Len(s) = 2 /\ s[1] = "0" /\ IsDigit(s[2]) /\ s[2] # "0"
    \/ Len(s) = 1 /\ IsDigit(s[1]) /\ s[1] # "0"

\* %Y: \d\d\d\d
MatchesYear(s) == Len(s) = 4 /\ AllDigits(s)

\* datetime.strptime(s, "%d-%m-%Y"): [ok |-> TRUE, y, m, d] for the date
\* parsed, [ok |-> FALSE] where strptime raises ValueError. The day and the
\* month hold no "-", so the text must be day "-" month "-" year.
Strptime(s) ==
    LET dashes == {i \in 1..Len(s) : s[i] = "-"}
        bad == [ok |-> FALSE, y |-> 0, m |-> 0, d |-> 0]
    IN  IF Cardinality(dashes) # 2 THEN bad
        ELSE LET i1 == CHOOSE i \in dashes : \A j \in dashes : i <= j
                 i2 == CHOOSE i \in dashes : \A j \in dashes : i >= j
                 ds == SubSeq(s, 1, i1 - 1)
                 ms == SubSeq(s, i1 + 1, i2 - 1)
                 ys == SubSeq(s, i2 + 1, Len(s))
             IN  IF ~(MatchesDay(ds) /\ MatchesMonth(ms) /\ MatchesYear(ys))
                 THEN bad
                 ELSE LET y == StrToInt(ys)
                          m == StrToInt(ms)
                          d == StrToInt(Strip(ds))
                      IN  IF y >= 1 /\ d <= DaysInMonth(y, m)
                          THEN [ok |-> TRUE, y |-> y, m |-> m, d |-> d]
                          ELSE bad

\* (deadline_date - datetime.now()).days: the deadline is midnight of its
\* day, and timedelta.days is the floor of the difference in days, so any
\* time of day after midnight (tod = 1) takes one more day off.
DaysLeft(dl, t) == ToOrdinal(dl.y, dl.m, dl.d) - ToOrdinal(t.y, t.m, t.d) - t.tod

\* The calendar day after t, at the same time of day.
NextDay(t) ==
    IF t.d < DaysInMonth(t.y, t.m) THEN [t EXCEPT !.d = t.d + 1]
    ELSE IF t.m < 12 THEN [t EXCEPT !.d = 1, !.m = t.m + 1]
    ELSE [t EXCEPT !.d = 1, !.m = 1, !.y = t.y + 1]

(***************************************************************************)
(* Task and DeadlineTask.                                                  *)
(***************************************************************************)
StrUmum == <<"U", "m", "u", "m">>
StrKerja == <<"K", "e", "r", "j", "a">>

\* TodoApp.CATEGORIES, the values of the read-only category combobox (the
\* model keeps the first and the third of the four).
CATEGORIES == <<StrUmum, StrKerja>>

\* DeadlineTask.__init__ over Task.__init__: a task is not completed and
\* carries the date of its construction.
DeadlineTask(task_id, title, description, deadline, category, t) ==
    [id |-> task_id, title |-> title, description |-> description,
     category |-> category, completed |-> FALSE,
     created_date |-> Strftime(t), deadline |-> deadline]

\* toggle_status that marks the task completed instead of flipping it.
toggle_status_sets(task) == [task EXCEPT !.completed = TRUE]

\* Task.toggle_status
toggle_status(task) == [task EXCEPT !.completed = ~task.completed]

\* Task.is_completed
is_completed(task) == task.completed

\* The setter of Task.title
title_setter(task, value) == [task EXCEPT !.title = value]

\* The setter of Task.description
description_setter(task, value) == [task EXCEPT !.description = value]

\* The setter of Task.category
category_setter(task, value) == [task EXCEPT !.category = value]

\* The setter of DeadlineTask.deadline
deadline_setter(task, value) == [task EXCEPT !.deadline = value]

\* DeadlineTask.to_dict over Task.to_dict: the dict written for a task.
to_dict(task) ==
    [k \in {"id", "title", "description", "category", "completed",
            "created_date", "type", "deadline"} |->
        CASE k = "id" -> task.id
          [] k = "title" -> task.title
          [] k = "description" -> task.description
          [] k = "category" -> task.category
          [] k = "completed" -> task.completed
          [] k = "created_date" -> task.created_date
          [] k = "type" -> "DeadlineTask"
          [] k = "deadline" -> task.deadline]

(***************************************************************************)
(* TaskManager.                                                            *)
(***************************************************************************)
NoFile == [kind |-> "absent", data |-> << >>]

\* dict.get(key, default)
Get(item, key, default) == IF key \in DOMAIN item THEN item[key] ELSE default

\* load_tasks without its line "task._completed = item.get(...)".
task_from_item_not_completed(item, t) ==
    DeadlineTask(item["id"], item["title"], item["description"],
                 Get(item, "deadline", << >>), Get(item, "category", StrUmum), t)

\* The task load_tasks builds from one dict of the file: the constructor
\* stamps the date of the load, and completed is then set from the dict.
task_from_item(item, t) ==
    [DeadlineTask(item["id"], item["title"], item["description"],
                  Get(item, "deadline", << >>),
                  Get(item, "category", StrUmum), t)
        EXCEPT !.completed = Get(item, "completed", FALSE)]

\* TaskManager.load_tasks on a fresh manager: the tasks of the file, none
\* when the file is absent (FileNotFoundError) or is not JSON
\* (JSONDecodeError).
load_tasks(f, t) ==
    IF f.kind = "json"
    THEN [i \in 1..Len(f.data) |-> task_from_item(f.data[i], t)]
    ELSE << >>

\* The keys load_tasks reads with item[...], not with item.get(...).
RequiredKeys == {"id", "title", "description"}

\* Whether load_tasks raises to its caller: it catches FileNotFoundError and
\* JSONDecodeError only, so the TypeError of a for-loop over a JSON value
\* that is no list ("json_number") and the KeyError of a dict without a
\* required key go through TaskManager.__init__ and TodoApp.__init__.
load_raises(f) ==
    \/ f.kind = "json_number"
    \/ /\ f.kind = "json"
       /\ \E i \in 1..Len(f.data) : ~(RequiredKeys \subseteq DOMAIN f.data[i])

\* TaskManager.save_tasks: the file after the call. The write succeeds
\* ("ok"), or open() raises IOError and the file is as it was ("denied"), or
\* the write raises IOError after open() truncated the file ("partial");
\* the IOError is caught in both cases.
save_tasks(ts, f, outcome) ==
    CASE outcome = "ok" ->
            [kind |-> "json", data |-> [i \in 1..Len(ts) |-> to_dict(ts[i])]]
      [] outcome = "denied" -> f
      [] outcome = "partial" -> [kind |-> "garbage", data |-> << >>]

\* list.pop(index) for 0 <= index < len: the list without that element.
Pop(ts, index) ==
    [i \in 1..(Len(ts) - 1) |-> IF i <= index THEN ts[i] ELSE ts[i + 1]]

\* The guard of delete_task and of toggle_task.
InRange(ts, index) == 0 <= index /\ index < Len(ts)

\* The positions of the list (from 1) that hold the task object at
\* position p: _tasks is a list of references, and add_task appends the
\* object it is handed, so an object appended twice is at two positions.
same_object(sh, p) == {p} \cup UNION {b \in sh : p \in b}

\* shared after self._tasks.append(task), task being the object at position
\* p of a list of n tasks: the new position holds that object too.
shared_after_append(sh, p, n) ==
    (sh \ {b \in sh : p \in b}) \cup {same_object(sh, p) \cup {n + 1}}

\* shared after self._tasks.pop(index): the popped position is gone, the
\* positions behind it move up, and an object left at one position only is
\* shared no more.
shared_after_pop(sh, index) ==
    LET moved(b) == {IF q > index + 1 THEN q - 1 ELSE q : q \in b \ {index + 1}}
    IN  {c \in {moved(b) : b \in sh} : Cardinality(c) >= 2}

\* add_task that puts the task at the head of the list.
add_task_prepends(ts, f, task, outcome) ==
    LET ts2 == <<task>> \o ts
    IN  [tasks |-> ts2, file |-> save_tasks(ts2, f, outcome), wrote |-> outcome]

\* add_task that takes the task off again when the write fails.
add_task_rolls_back(ts, f, task, outcome) ==
    [tasks |-> IF outcome = "ok" THEN Append(ts, task) ELSE ts,
     file |-> save_tasks(Append(ts, task), f, outcome), wrote |-> outcome]

\* TaskManager.add_task: [tasks, file, wrote] after the call.
add_task(ts, f, task, outcome) ==
    LET ts2 == Append(ts, task)
    IN  [tasks |-> ts2, file |-> save_tasks(ts2, f, outcome), wrote |-> outcome]

\* delete_task with save_tasks called before the pop.
delete_task_saves_first(ts, f, index, outcome) ==
    IF InRange(ts, index)
    THEN [tasks |-> Pop(ts, index), file |-> save_tasks(ts, f, outcome),
          wrote |-> outcome]
    ELSE [tasks |-> ts, file |-> f, wrote |-> "none"]

\* delete_task with save_tasks called outside the if.
delete_task_saves_always(ts, f, index, outcome) ==
    LET ts2 == IF InRange(ts, index) THEN Pop(ts, index) ELSE ts
    IN  [tasks |-> ts2, file |-> save_tasks(ts2, f, outcome), wrote |-> outcome]

\* TaskManager.delete_task: [tasks, file, wrote] after the call; wrote is
\* "none" when save_tasks is not called.
delete_task(ts, f, index, outcome) ==
    IF InRange(ts, index)
    THEN LET ts2 == Pop(ts, index)
         IN  [tasks |-> ts2, file |-> save_tasks(ts2, f, outcome),
              wrote |-> outcome]
    ELSE [tasks |-> ts, file |-> f, wrote |-> "none"]

\* TaskManager.toggle_task: [tasks, file, wrote] after the call. The
\* object at index is toggled, which shows at every position that holds it.
toggle_task(ts, sh, f, index, outcome) ==
    IF InRange(ts, index)
    THEN LET ts2 == [i \in 1..Len(ts) |->
                        IF i \in same_object(sh, index + 1)
                        THEN toggle_status(ts[i]) ELSE ts[i]]
         IN  [tasks |-> ts2, file |-> save_tasks(ts2, f, outcome),
              wrote |-> outcome]
    ELSE [tasks |-> ts, file |-> f, wrote |-> "none"]

(***************************************************************************)
(* TodoApp: the list view.                                                 *)
(***************************************************************************)
\* The status column of a row in _refresh_list: "done" for a completed
\* task, else "urgent" when the deadline parses and days_left < 3, else
\* "pending" (also when strptime raises, which the bare except catches).
status_text(task, t) ==
    IF is_completed(task) THEN "done"
    ELSE LET dl == Strptime(task.deadline)
         IN  IF dl.ok /\ DaysLeft(dl, t) < 3 THEN "urgent" ELSE "pending"

\* f"{task.title} {task.description} {task.category}".lower()
combined_text(task) ==
    Lower(task.title \o <<" ">> \o task.description \o <<" ">> \o task.category)

\* The search filter of _refresh_list: whether the task gets a row.
matches(task, query) == ~(query # << >> /\ ~Contains(combined_text(task), query))

\* The row _tree.insert adds for the task at idx: its iid is str(idx).
tree_row(ts, idx, t) ==
    [iid |-> IntToStr(idx), number |-> idx + 1, title |-> ts[idx + 1].title,
     category |-> ts[idx + 1].category, deadline |-> ts[idx + 1].deadline,
     status |-> status_text(ts[idx + 1], t)]

\* The loop of _refresh_list over enumerate(tasks), from idx on.
RECURSIVE tree_rows(_, _, _, _)
tree_rows(ts, idx, query, t) ==
    IF idx >= Len(ts) THEN << >>
    ELSE IF matches(ts[idx + 1], query)
         THEN <<tree_row(ts, idx, t)>> \o tree_rows(ts, idx + 1, query, t)
         ELSE tree_rows(ts, idx + 1, query, t)

\* sum(1 for t in tasks if t.is_completed())
done_count(ts) == Cardinality({i \in 1..Len(ts) : is_completed(ts[i])})

\* The percentage rounded to the nearest integer.
percentage_rounded(done, total) ==
    IF total > 0 THEN (200 * done + total) \div (2 * total) ELSE 0

\* int((done / total * 100)) if total > 0 else 0. The quotient and the
\* product are floats and int() truncates; for total < 50 the truncated
\* float product is the integer quotient of 100 * done by total (the first
\* store where it is not is 29 of 50, which gives 57).
percentage(done, total) == IF total > 0 THEN (done * 100) \div total ELSE 0

\* The status bar and the progress bar after _refresh_list: the bar keeps
\* its maximum when there is no task.
progress_summary(ts, st) ==
    LET total == Len(ts)
        done == done_count(ts)
    IN  [shown |-> TRUE, total |-> total, done |-> done,
         pending |-> total - done, percent |-> percentage(done, total),
         bar_maximum |-> IF total > 0 THEN total ELSE st.bar_maximum,
         bar_value |-> IF total > 0 THEN done ELSE 0]

\* _refresh_list that gives each row its place among the rows as its iid.
refresh_list_renumbered(ts, srch, t, st) ==
    LET rows == tree_rows(ts, 0, Lower(Strip(srch)), t)
    IN  [tree |-> [r \in 1..Len(rows) |->
                      [rows[r] EXCEPT !.iid = IntToStr(r - 1)]],
         status |-> progress_summary(ts, st)]

\* TodoApp._refresh_list: the rows and the status bar it leaves.
refresh_list(ts, srch, t, st) ==
    [tree |-> tree_rows(ts, 0, Lower(Strip(srch)), t),
     status |-> progress_summary(ts, st)]

\* The status bar and the progress bar as the constructor leaves them: no
\* text, and a ttk.Progressbar's own value 0 and maximum 100.
InitialStatus ==
    [shown |-> FALSE, total |-> 0, done |-> 0, pending |-> 0, percent |-> 0,
     bar_maximum |-> 100, bar_value |-> 0]

\* max([t.task_id for t in tasks], default=0): the greatest id, and 0 for
\* an empty list only.
RECURSIVE max_id(_)
max_id(ts) ==
    IF Len(ts) = 0 THEN 0
    ELSE IF Len(ts) = 1 THEN ts[1].id
    ELSE LET rest == max_id(SubSeq(ts, 2, Len(ts)))
         IN  IF ts[1].id > rest THEN ts[1].id ELSE rest

\* The id taken as the number of tasks plus one.
next_task_id_by_count(ts) == Len(ts) + 1

\* The id taken as the lowest positive id no task holds.
next_task_id_lowest_free(ts) ==
    CHOOSE n \in 1..(Len(ts) + 1) :
        /\ \A i \in 1..Len(ts) : ts[i].id # n
        /\ \A m \in 1..(n - 1) : \E i \in 1..Len(ts) : ts[i].id = m

\* The id taken as the maximum id, the "+ 1" left out.
next_task_id_no_increment(ts) == max_id(ts)

\* The id _add_task gives a new task.
next_task_id(ts) == max_id(ts) + 1

(***************************************************************************)
(* The inputs the model draws: what the user types and picks, and how each *)
(* file write ends.                                                        *)
(***************************************************************************)
StrDate0103 == <<"0", "1", "-", "0", "3", "-", "2", "0", "2", "6">>

\* The title, description, category and deadline entries at "add": one
\* form that passes the checks of _add_task, and one for each check that
\* fails (no title after strip, no deadline, not a calendar date).
AddInputs ==
    { [title |-> <<" ", "a">>, description |-> <<"b", " ">>,
       category |-> StrKerja, deadline |-> StrDate0103],
      [title |-> <<" ">>, description |-> << >>, category |-> StrUmum,
       deadline |-> StrDate0103],
      [title |-> <<"a">>, description |-> << >>, category |-> StrUmum,
       deadline |-> << >>],
      [title |-> <<"a">>, description |-> << >>, category |-> StrUmum,
       deadline |-> <<"2", "9", "-", "0", "2", "-", "2", "0", "2", "6">>] }

\* The entries of the edit dialog when "Simpan" is pressed.
EditInputs ==
    { [title |-> << >>, description |-> <<"a">>, deadline |-> <<"x">>] }

\* The texts typed into the search entry.
SearchInputs == { << >>, <<" ", "B">> }

\* How a file write ends.
WriteOutcomes == {"ok", "denied", "partial"}

\* The date and time the first session starts at: some time after midnight.
StartTime == [y |-> 2026, m |-> 2, d |-> 26, tod |-> 1]

\* A write may fail only while the model's budget of failures lasts.
MayEnd(outcome) == outcome = "ok" \/ failures < MaxWriteFailures

Failed(outcome) == IF outcome = "ok" \/ outcome = "none" THEN 0 ELSE 1

(***************************************************************************)
(* TodoApp: the handlers. Each takes how its file write ends, and leaves   *)
(* the history variable deleted to the specification.                      *)
(***************************************************************************)
\* The checks of _add_task without the strptime of the deadline.
add_accepts_any_deadline(title, deadline) == title # << >> /\ deadline # << >>

\* Whether _add_task gets past its three checks with these entries.
add_accepts(title, deadline) ==
    title # << >> /\ deadline # << >> /\ Strptime(deadline).ok

\* The entries of AddInputs that pass the checks.
ValidAddInputs ==
    {inp \in AddInputs : add_accepts(Strip(inp.title), Strip(inp.deadline))}

\* Whether the main window takes the user's input: no messagebox.askyesno
\* of _delete_task waits for its answer (the message box is modal: it
\* keeps the input until it is answered), and no edit dialog holds the
\* grab it took with dlg.grab_set().
Idle == dialogs = << >> /\ pending = << >>

\* TodoApp._add_task. Where a check fails nothing is written, and how a
\* write would end is not drawn.
AddTask(inp, outcome) ==
    LET title == Strip(inp.title)
        description == Strip(inp.description)
        deadline == Strip(inp.deadline)
    IN  /\ Idle
        /\ IF ~add_accepts(title, deadline)
           THEN /\ outcome = "ok"
                /\ last' = [op |-> "add_rejected", index |-> 0, wrote |-> "none"]
                /\ UNCHANGED <<tasks, file, now, search, tree, status, failures,
                               dialogs, pending, shared>>
           ELSE /\ Len(tasks) < MaxTasks
                /\ next_task_id(tasks) <= MaxId
                /\ MayEnd(outcome)
                /\ LET task == DeadlineTask(next_task_id(tasks), title,
                                            description, deadline, inp.category,
                                            now)
                       r == add_task(tasks, file, task, outcome)
                       v == refresh_list(r.tasks, search, now, status)
                   IN  /\ tasks' = r.tasks
                       /\ file' = r.file
                       /\ tree' = v.tree
                       /\ status' = v.status
                       /\ failures' = failures + Failed(r.wrote)
                       /\ last' = [op |-> "add", index |-> Len(tasks),
                                   wrote |-> r.wrote]
                /\ UNCHANGED <<now, search, dialogs, pending, shared>>

\* TodoApp._toggle_task on the selected row
ToggleTask(row, outcome) ==
    /\ Idle
    /\ row \in 1..Len(tree)
    /\ MayEnd(outcome)
    /\ LET index == StrToInt(tree[row].iid)
           r == toggle_task(tasks, shared, file, index, outcome)
           v == refresh_list(r.tasks, search, now, status)
       IN  /\ tasks' = r.tasks
           /\ file' = r.file
           /\ tree' = v.tree
           /\ status' = v.status
           /\ failures' = failures + Failed(r.wrote)
           /\ last' = [op |-> "toggle", index |-> index, wrote |-> r.wrote]
    /\ UNCHANGED <<now, search, dialogs, pending, shared>>

\* self.manager.tasks[index] of _edit_task and of _delete_task: a Python
\* list takes an index from -len to len - 1, a negative one counting from
\* the end, and raises IndexError for any other.
ListIndex(ts, index) ==
    IF 0 <= index /\ index < Len(ts) THEN [ok |-> TRUE, at |-> index]
    ELSE IF -Len(ts) <= index /\ index < 0
         THEN [ok |-> TRUE, at |-> Len(ts) + index]
         ELSE [ok |-> FALSE, at |-> 0]

\* Where the task objects of the open dialogs are after tasks.pop(index):
\* the popped object is in the list no more (-1) unless another position
\* holds it too, those behind it move up.
after_pop(ds, sh, index) ==
    [k \in 1..Len(ds) |->
        IF ds[k].at = index
        THEN LET rest == same_object(sh, index + 1) \ {index + 1}
                 q == CHOOSE x \in rest : \A r \in rest : x <= r
             IN  IF rest = {} THEN [ds[k] EXCEPT !.at = -1]
                 ELSE [ds[k] EXCEPT !.at = IF q > index + 1 THEN q - 2
                                           ELSE q - 1]
        ELSE IF ds[k].at > index THEN [ds[k] EXCEPT !.at = @ - 1]
             ELSE ds[k]]

\* TodoApp._delete_task up to its askyesno, for the selection index: it
\* reads tasks[index] for the question, which raises IndexError where
\* there is no such task ("delete_raised"), and then waits for the answer
\* in the modal message box. The call keeps its locals through the wait:
\* index, and task, here by its id.
AskDeleteAt(index) ==
    /\ Idle
    /\ IF ~ListIndex(tasks, index).ok
       THEN /\ last' = [op |-> "delete_raised", index |-> index,
                        wrote |-> "none"]
            /\ UNCHANGED pending
       ELSE /\ pending' = Append(pending,
                   [index |-> index,
                    task |-> tasks[ListIndex(tasks, index).at + 1].id])
            /\ last' = [op |-> "delete_ask", index |-> index,
                        wrote |-> "none"]
    /\ UNCHANGED <<tasks, file, now, search, tree, status, failures, dialogs,
                   shared>>

\* TodoApp._delete_task on the selected row, up to its askyesno
AskDelete(row) ==
    /\ row \in 1..Len(tree)
    /\ AskDeleteAt(StrToInt(tree[row].iid))

\* askyesno returns and _delete_task goes on: on yes it calls
\* delete_task with the index it read before the wait, and _refresh_list;
\* on no it returns.
AnswerDelete(yes, outcome) ==
    /\ pending # << >>
    /\ pending' = SubSeq(pending, 1, Len(pending) - 1)
    /\ LET index == pending[Len(pending)].index
       IN  IF yes
           THEN /\ MayEnd(outcome)
                /\ ~InRange(tasks, index) => outcome = "ok"
                /\ LET r == delete_task(tasks, file, index, outcome)
                       v == refresh_list(r.tasks, search, now, status)
                   IN  /\ tasks' = r.tasks
                       /\ file' = r.file
                       /\ tree' = v.tree
                       /\ status' = v.status
                       /\ failures' = failures + Failed(r.wrote)
                       /\ last' = [op |-> "delete", index |-> index,
                                   wrote |-> r.wrote]
                /\ dialogs' = IF InRange(tasks, index)
                              THEN after_pop(dialogs, shared, index)
                              ELSE dialogs
                /\ shared' = IF InRange(tasks, index)
                             THEN shared_after_pop(shared, index) ELSE shared
                /\ UNCHANGED <<now, search>>
           ELSE /\ outcome = "ok"
                /\ last' = [op |-> "delete_cancelled", index |-> index,
                            wrote |-> "none"]
                /\ UNCHANGED <<tasks, file, now, search, tree, status,
                               failures, dialogs, shared>>

\* TodoApp._edit_task for the selection index: it reads tasks[index] with
\* no check of the range, which raises IndexError ("edit_raised") or gives
\* the task a negative index counts to, opens the dialog on that task
\* object, which takes the grab, and returns to the event loop. The dialog
\* keeps the object, here as its place in the list (at) and its id (task).
OpenEditAt(index) ==
    /\ Idle
    /\ IF ~ListIndex(tasks, index).ok
       THEN /\ last' = [op |-> "edit_raised", index |-> index,
                        wrote |-> "none"]
            /\ UNCHANGED dialogs
       ELSE /\ LET at == ListIndex(tasks, index).at
               IN  dialogs' = Append(dialogs,
                                     [at |-> at, task |-> tasks[at + 1].id])
            /\ last' = [op |-> "edit_open", index |-> index,
                        wrote |-> "none"]
    /\ UNCHANGED <<tasks, file, now, search, tree, status, failures, pending,
                   shared>>

\* TodoApp._edit_task on the selected row
OpenEdit(row) ==
    /\ row \in 1..Len(tree)
    /\ OpenEditAt(StrToInt(tree[row].iid))

\* save_changes that also marks the task not completed.
save_changes_resets_completed(ts, sh, f, index, inp, outcome) ==
    LET ts2 == [i \in 1..Len(ts) |->
                  IF index >= 0 /\ i \in same_object(sh, index + 1)
                  THEN [ts[i] EXCEPT !.title = Strip(inp.title),
                                     !.description = Strip(inp.description),
                                     !.deadline = Strip(inp.deadline),
                                     !.completed = FALSE]
                  ELSE ts[i]]
    IN  [tasks |-> ts2, file |-> save_tasks(ts2, f, outcome), wrote |-> outcome]

\* save_changes of an edit dialog whose task object is at index in the
\* list, or in the list no more (index -1): the three fields of that object
\* are set from the entries, which shows at every position that holds the
\* object, and the store is saved.
save_changes(ts, sh, f, index, inp, outcome) ==
    LET ts2 == [i \in 1..Len(ts) |->
                  IF index >= 0 /\ i \in same_object(sh, index + 1)
                  THEN [ts[i] EXCEPT !.title = Strip(inp.title),
                                     !.description = Strip(inp.description),
                                     !.deadline = Strip(inp.deadline)]
                  ELSE ts[i]]
    IN  [tasks |-> ts2, file |-> save_tasks(ts2, f, outcome), wrote |-> outcome]

\* "Simpan" in the open dialog: save_changes, _refresh_list, and the
\* dialog is destroyed.
SaveChanges(inp, outcome) ==
    /\ dialogs # << >>
    /\ MayEnd(outcome)
    /\ LET r == save_changes(tasks, shared, file, dialogs[1].at, inp,
                            outcome)
           v == refresh_list(r.tasks, search, now, status)
       IN  /\ tasks' = r.tasks
           /\ file' = r.file
           /\ tree' = v.tree
           /\ status' = v.status
           /\ failures' = failures + Failed(r.wrote)
           /\ last' = [op |-> "edit", index |-> dialogs[1].at,
                       wrote |-> r.wrote]
    /\ dialogs' = << >>
    /\ UNCHANGED <<now, search, pending, shared>>

\* A write of _search_var, whose trace calls _refresh_list
SetSearch(text) ==
    /\ Idle
    /\ LET v == refresh_list(tasks, text, now, status)
       IN  /\ search' = text
           /\ tree' = v.tree
           /\ status' = v.status
    /\ last' = [op |-> "search", index |-> 0, wrote |-> "none"]
    /\ UNCHANGED <<tasks, file, now, failures, dialogs, pending, shared>>

\* The days the clock has gone through since the start.
DaysGone == ToOrdinal(now.y, now.m, now.d)
                - ToOrdinal(StartTime.y, StartTime.m, StartTime.d)

\* Midnight passes.
Tick ==
    /\ DaysGone < MaxDays
    /\ now' = NextDay(now)
    /\ last' = [op |-> "tick", index |-> 0, wrote |-> "none"]
    /\ UNCHANGED <<tasks, file, search, tree, status, failures, dialogs,
                   pending, shared>>

\* The program ends and is started again: TodoApp.__init__
\* makes a new TaskManager, whose __init__ calls load_tasks (a new object
\* for each dict of the file), and new widgets; it does not call _refresh_list. Where load_tasks raises, the
\* exception leaves TodoApp.__init__ and the program ends with no window
\* ("start_raised").
Restart ==
    /\ tasks' = IF load_raises(file) THEN << >> ELSE load_tasks(file, now)
    /\ search' = << >>
    /\ tree' = << >>
    /\ status' = InitialStatus
    /\ last' = [op |-> IF load_raises(file) THEN "start_raised" ELSE "start",
                index |-> 0, wrote |-> "none"]
    /\ dialogs' = << >>
    /\ pending' = << >>
    /\ shared' = {}
    /\ UNCHANGED <<file, now, failures>>

\* Whether there is a window to act on: the last start did not raise.
Running == last.op # "start_raised"

(***************************************************************************)
(* TaskManager called directly, with any index.                            *)
(***************************************************************************)
\* The indexes a caller passes: from -1 to past the end.
Indexes == -1..(MaxTasks + 1)

\* The tasks a caller builds to hand to add_task. One has the id 2; the
\* other has the id 1, a title with a blank before it, and a deadline that
\* is no date.
StoreTasks ==
    { DeadlineTask(2, <<"a">>, <<"b">>, StrDate0103, StrKerja, StartTime),
      DeadlineTask(1, <<" ", "z">>, << >>, <<"x">>, StrUmum, StartTime) }

\* manager.add_task(task): add_task checks nothing of the task it is
\* given, neither its id nor its fields, nor whether the list holds it
\* already. The task is an object the caller has just built (held = 0) or
\* the object at position held of the list, handed over once more.
StoreAdd(task, held) ==
    /\ Len(tasks) < MaxTasks
    /\ held \in 0..Len(tasks)
    /\ held > 0 => task = tasks[held]
    /\ LET r == add_task(tasks, file, task, "ok")
       IN  /\ tasks' = r.tasks
           /\ file' = r.file
           /\ last' = [op |-> "add_task", index |-> Len(tasks),
                       wrote |-> r.wrote]
    /\ shared' = IF held = 0 THEN shared
                 ELSE shared_after_append(shared, held, Len(tasks))
    /\ UNCHANGED <<now, search, tree, status, failures, dialogs, pending>>

\* manager.delete_task(index): where a task is popped, the task object of
\* an open edit dialog moves with the list.
StoreDelete(index) ==
    /\ LET r == delete_task(tasks, file, index, "ok")
       IN  /\ tasks' = r.tasks
           /\ file' = r.file
           /\ last' = [op |-> "delete_task", index |-> index,
                       wrote |-> r.wrote]
    /\ dialogs' = IF InRange(tasks, index)
                  THEN after_pop(dialogs, shared, index) ELSE dialogs
    /\ shared' = IF InRange(tasks, index)
                 THEN shared_after_pop(shared, index) ELSE shared
    /\ UNCHANGED <<now, search, tree, status, failures, pending>>

\* manager.toggle_task(index)
StoreToggle(index) ==
    /\ LET r == toggle_task(tasks, shared, file, index, "ok")
       IN  /\ tasks' = r.tasks
           /\ file' = r.file
           /\ last' = [op |-> "toggle_task", index |-> index,
                       wrote |-> r.wrote]
    /\ UNCHANGED <<now, search, tree, status, failures, dialogs, pending,
                   shared>>

\* The assignments a caller makes through the setters: any string is taken.
SetInputs ==
    { [field |-> "title", value |-> <<" ", "z">>],
      [field |-> "description", value |-> << >>],
      [field |-> "category", value |-> StrUmum],
      [field |-> "deadline", value |-> <<"x">>] }

\* manager.tasks[index].<field> = value: the list is indexed as Python
\* indexes it (IndexError: "set_raised"), the task object changes, at
\* every position that holds it; nothing is saved and the list view is not
\* rebuilt.
StoreSet(index, inp) ==
    /\ IF ~ListIndex(tasks, index).ok
       THEN /\ last' = [op |-> "set_raised", index |-> index,
                        wrote |-> "none"]
            /\ UNCHANGED tasks
       ELSE /\ LET at == ListIndex(tasks, index).at + 1
                   task == tasks[at]
                   set == CASE inp.field = "title" ->
                                  title_setter(task, inp.value)
                            [] inp.field = "description" ->
                                  description_setter(task, inp.value)
                            [] inp.field = "category" ->
                                  category_setter(task, inp.value)
                            [] inp.field = "deadline" ->
                                  deadline_setter(task, inp.value)
               IN  tasks' = [i \in 1..Len(tasks) |->
                                IF i \in same_object(shared, at) THEN set
                                ELSE tasks[i]]
            /\ last' = [op |-> "set", index |-> index, wrote |-> "none"]
    /\ UNCHANGED <<file, now, search, tree, status, failures, dialogs,
                   pending, shared>>

\* manager.tasks[index].toggle_status(): the flag of the object flips, at
\* every position that holds it; nothing is saved.
StoreToggleStatus(index) ==
    /\ IF ~ListIndex(tasks, index).ok
       THEN /\ last' = [op |-> "toggle_status_raised", index |-> index,
                        wrote |-> "none"]
            /\ UNCHANGED tasks
       ELSE /\ LET at == ListIndex(tasks, index).at + 1
               IN  tasks' = [i \in 1..Len(tasks) |->
                                IF i \in same_object(shared, at)
                                THEN toggle_status(tasks[i]) ELSE tasks[i]]
            /\ last' = [op |-> "toggle_status", index |-> index,
                        wrote |-> "none"]
    /\ UNCHANGED <<file, now, search, tree, status, failures, dialogs,
                   pending, shared>>

\* manager.save_tasks(): the file is written from the list as it is.
StoreSave ==
    /\ file' = save_tasks(tasks, file, "ok")
    /\ last' = [op |-> "save_tasks", index |-> 0, wrote |-> "ok"]
    /\ UNCHANGED <<tasks, now, search, tree, status, failures, dialogs,
                   pending, shared>>

\* The tasks load_tasks has appended when it ends: all of the file, or,
\* where it raises, those before the first dict without a required key.
loaded(f, t) ==
    IF f.kind # "json" THEN << >>
    ELSE LET bad == {i \in 1..Len(f.data) :
                        ~(RequiredKeys \subseteq DOMAIN f.data[i])}
             n == IF bad = {} THEN Len(f.data)
                  ELSE (CHOOSE i \in bad : \A j \in bad : i <= j) - 1
         IN  [i \in 1..n |-> task_from_item(f.data[i], t)]

\* manager.load_tasks() on a manager in use: the list is not emptied
\* first, so the tasks of the file, each a new object, are appended to the
\* tasks in memory.
StoreLoad ==
    /\ Len(tasks) + Len(loaded(file, now)) <= MaxTasks
    /\ tasks' = tasks \o loaded(file, now)
    /\ last' = [op |-> IF load_raises(file) THEN "load_raised"
                       ELSE "load_tasks",
                index |-> 0, wrote |-> "none"]
    /\ UNCHANGED <<file, now, search, tree, status, failures, dialogs,
                   pending, shared>>

(***************************************************************************)
(* The specifications.                                                     *)
(***************************************************************************)
\* The state TodoApp.__init__ leaves when the program starts with file f at
\* time t.
Started(f, t) ==
    /\ file = f
    /\ now = t
    /\ tasks = IF load_raises(f) THEN << >> ELSE load_tasks(f, t)
    /\ search = << >>
    /\ tree = << >>
    /\ status = InitialStatus
    /\ last = [op |-> IF load_raises(f) THEN "start_raised" ELSE "start",
               index |-> 0, wrote |-> "none"]
    /\ failures = 0
    /\ deleted = {}
    /\ dialogs = << >>
    /\ pending = << >>
    /\ shared = {}

\* The first start: there is no file yet.
Init == Started(NoFile, StartTime)

task_ids(ts) == {ts[i].id : i \in 1..Len(ts)}

\* Spec: sessions of the program on one day, every file write succeeding.
\* The handlers run one after another in any order; while askyesno waits
\* or the edit dialog is open, the next step is its answer or its "Simpan",
\* or the end of the program.
Next ==
    \/ \E inp \in AddInputs : AddTask(inp, "ok") /\ UNCHANGED deleted
    \/ \E row \in 1..MaxTasks :
          ToggleTask(row, "ok") /\ UNCHANGED deleted
    \/ \E row \in 1..MaxTasks : AskDelete(row) /\ UNCHANGED deleted
    \/ AnswerDelete(TRUE, "ok") /\ UNCHANGED deleted
    \/ AnswerDelete(FALSE, "ok") /\ UNCHANGED deleted
    \/ \E row \in 1..MaxTasks : OpenEdit(row) /\ UNCHANGED deleted
    \/ \E inp \in EditInputs :
          SaveChanges(inp, "ok") /\ UNCHANGED deleted
    \/ \E text \in SearchInputs : SetSearch(text) /\ UNCHANGED deleted
    \/ Restart /\ UNCHANGED deleted

Spec == Init /\ [][Next]_vars

\* SpecIds: tasks created with any entries, deleted and reloaded, with the
\* history of the deleted ids kept.
NextIds ==
    \/ \E inp \in AddInputs : AddTask(inp, "ok") /\ UNCHANGED deleted
    \/ \E row \in 1..MaxTasks : AskDelete(row) /\ UNCHANGED deleted
    \/ /\ AnswerDelete(TRUE, "ok")
       /\ deleted' = deleted \cup (task_ids(tasks) \ task_ids(tasks'))
    \/ AnswerDelete(FALSE, "ok") /\ UNCHANGED deleted
    \/ Restart /\ UNCHANGED deleted

SpecIds == Init /\ [][NextIds]_vars

\* SpecFaults: sessions in which a file write may fail; the entries at "add"
\* are those that pass the checks of _add_task.
NextFaults ==
    \/ \E inp \in ValidAddInputs, outcome \in WriteOutcomes :
          AddTask(inp, outcome) /\ UNCHANGED deleted
    \/ \E row \in 1..MaxTasks, outcome \in WriteOutcomes :
          ToggleTask(row, outcome) /\ UNCHANGED deleted
    \/ \E row \in 1..MaxTasks : AskDelete(row) /\ UNCHANGED deleted
    \/ \E outcome \in WriteOutcomes :
          AnswerDelete(TRUE, outcome) /\ UNCHANGED deleted
    \/ AnswerDelete(FALSE, "ok") /\ UNCHANGED deleted
    \/ \E row \in 1..MaxTasks : OpenEdit(row) /\ UNCHANGED deleted
    \/ \E inp \in EditInputs, outcome \in WriteOutcomes :
          SaveChanges(inp, outcome) /\ UNCHANGED deleted
    \/ Restart /\ UNCHANGED deleted

SpecFaults == Init /\ [][NextFaults]_vars

\* SpecStore: the methods of TaskManager called with any task, a task the
\* list holds already among them, and any index, save_tasks called on its
\* own, and toggle_status called on a task of the list, which leaves the
\* file behind the tasks.
NextStore ==
    \/ \E task \in StoreTasks : StoreAdd(task, 0) /\ UNCHANGED deleted
    \/ \E held \in 1..MaxTasks :
          /\ held <= Len(tasks)
          /\ StoreAdd(tasks[held], held)
          /\ UNCHANGED deleted
    \/ \E index \in Indexes : StoreDelete(index) /\ UNCHANGED deleted
    \/ \E index \in Indexes : StoreToggle(index) /\ UNCHANGED deleted
    \/ \E index \in Indexes : StoreToggleStatus(index) /\ UNCHANGED deleted
    \/ StoreSave /\ UNCHANGED deleted

SpecStore == Init /\ [][NextStore]_vars

(***************************************************************************)
(* Specifications for the list view: each starts the program on a file an  *)
(* earlier session wrote, and drives _refresh_list.                        *)
(***************************************************************************)
\* The state after the program starts at time t on the file a session
\* wrote for the tasks ts.
StartedOn(ts, t) ==
    /\ file = save_tasks(ts, NoFile, "ok")
    /\ now = t
    /\ tasks = load_tasks(file, t)
    /\ search = << >>
    /\ tree = << >>
    /\ status = InitialStatus
    /\ last = [op |-> "start", index |-> 0, wrote |-> "none"]
    /\ failures = 0
    /\ deleted = {}
    /\ dialogs = << >>
    /\ pending = << >>
    /\ shared = {}

\* Titles, descriptions and categories to search in.
QueryTexts ==
    { [title |-> <<"a">>, description |-> <<"b">>, category |-> StrUmum],
      [title |-> <<"B">>, description |-> << >>, category |-> StrKerja],
      [title |-> <<"a", "b">>, description |-> <<"a">>, category |-> StrUmum],
      [title |-> <<"A", " ", "b">>, description |-> << >>, category |-> StrKerja] }

\* Texts typed into the search entry.
QueryInputs ==
    { << >>, <<"a">>, <<"B">>, <<"a", " ", "b">>, <<"b", " ", "u">>, <<"K">> }

\* SpecQuery: a store of up to MaxQueryTasks tasks, the search entry, and
\* the title of a task set through its setter.
InitQuery ==
    \E n \in 0..MaxQueryTasks : \E f \in [1..n -> QueryTexts] :
        StartedOn([i \in 1..n |->
                      DeadlineTask(i, f[i].title, f[i].description, StrDate0103,
                                   f[i].category, StartTime)], StartTime)

NextQuery ==
    \/ \E text \in QueryInputs : SetSearch(text) /\ UNCHANGED deleted
    \/ \E index \in Indexes, inp \in SetInputs :
          /\ inp.field \in {"title"}
          /\ StoreSet(index, inp)
          /\ UNCHANGED deleted

SpecQuery == InitQuery /\ [][NextQuery]_vars

\* SpecProgress: a store of up to MaxSummaryTasks tasks, each completed or
\* not, listed and toggled.
InitProgress ==
    \E n \in 0..MaxSummaryTasks : \E f \in [1..n -> BOOLEAN] :
        StartedOn([i \in 1..n |->
                      [DeadlineTask(i, <<"a">>, << >>, StrDate0103, StrUmum,
                                    StartTime) EXCEPT !.completed = f[i]]],
                  StartTime)

NextProgress ==
    \/ SetSearch(<< >>) /\ UNCHANGED deleted
    \/ \E row \in 1..MaxSummaryTasks : ToggleTask(row, "ok") /\ UNCHANGED deleted

SpecProgress == InitProgress /\ [][NextProgress]_vars

\* Deadlines around the start, 26-02-2026: the day before, the day, 2, 3, 4
\* and 10 days ahead, and three texts that are no date.
UrgencyDeadlines ==
    { <<"2", "5", "-", "0", "2", "-", "2", "0", "2", "6">>,
      <<"2", "6", "-", "0", "2", "-", "2", "0", "2", "6">>,
      <<"2", "8", "-", "0", "2", "-", "2", "0", "2", "6">>,
      StrDate0103,
      <<"2", "-", "3", "-", "2", "0", "2", "6">>,
      <<"0", "8", "-", "0", "3", "-", "2", "0", "2", "6">>,
      <<"2", "9", "-", "0", "2", "-", "2", "0", "2", "6">>,
      <<"x">>,
      << >> }

\* SpecUrgency: one task, its deadline any of UrgencyDeadlines, listed at
\* midnight sharp (tod = 0) or later in the day (tod = 1), day after day;
\* its fields are also set through the setters of Task and DeadlineTask.
InitUrgency ==
    \E dl \in UrgencyDeadlines, c \in BOOLEAN, tod \in {0, 1} :
        StartedOn(<<[DeadlineTask(1, <<"a">>, << >>, dl, StrUmum, StartTime)
                        EXCEPT !.completed = c]>>,
                  [StartTime EXCEPT !.tod = tod])

NextUrgency ==
    \/ SetSearch(<< >>) /\ UNCHANGED deleted
    \/ ToggleTask(1, "ok") /\ UNCHANGED deleted
    \/ Tick /\ UNCHANGED deleted
    \/ \E index \in Indexes, inp \in SetInputs :
          StoreSet(index, inp) /\ UNCHANGED deleted

SpecUrgency == InitUrgency /\ [][NextUrgency]_vars

\* Files the program may find at its start: none, text that is no JSON,
\* "[]", a file a session wrote, a record with the required keys only, a
\* record without "id", a record without "description" after a whole one,
\* and a JSON number.
ForeignFiles ==
    { NoFile,
      [kind |-> "garbage", data |-> << >>],
      [kind |-> "json", data |-> << >>],
      save_tasks(<<DeadlineTask(1, <<"a">>, <<"b">>, StrDate0103, StrKerja,
                                StartTime)>>, NoFile, "ok"),
      [kind |-> "json",
       data |-> <<[id |-> 1, title |-> <<"a">>, description |-> <<"b">>]>>],
      [kind |-> "json", data |-> <<[title |-> <<"a">>]>>],
      [kind |-> "json",
       data |-> <<[id |-> 1, title |-> <<"a">>, description |-> <<"b">>],
                  [id |-> 2, title |-> <<"a">>]>>],
      [kind |-> "json_number", data |-> << >>] }

\* SpecLoad: the program started on any of ForeignFiles, and used while it
\* runs; save_tasks and load_tasks are also called on the running manager.
InitLoad == \E f \in ForeignFiles : Started(f, StartTime)

NextLoad ==
    \/ \E inp \in AddInputs :
          Running /\ AddTask(inp, "ok") /\ UNCHANGED deleted
    \/ \E row \in 1..MaxTasks :
          Running /\ ToggleTask(row, "ok") /\ UNCHANGED deleted
    \/ \E row \in 1..MaxTasks :
          Running /\ AskDelete(row) /\ UNCHANGED deleted
    \/ \E yes \in BOOLEAN :
          Running /\ AnswerDelete(yes, "ok") /\ UNCHANGED deleted
    \/ \E text \in SearchInputs :
          Running /\ SetSearch(text) /\ UNCHANGED deleted
    \/ Running /\ StoreSave /\ UNCHANGED deleted
    \/ Running /\ StoreLoad /\ UNCHANGED deleted
    \/ Restart /\ UNCHANGED deleted

SpecLoad == InitLoad /\ [][NextLoad]_vars

\* SpecEvents: the program started on a file of two tasks, and its
\* handlers run in any order.
InitEvents ==
    StartedOn(<<DeadlineTask(1, <<"a">>, <<"b">>, StrDate0103, StrKerja,
                             StartTime),
                DeadlineTask(2, <<"B">>, << >>, StrDate0103, StrUmum,
                             StartTime)>>, StartTime)

NextEvents ==
    \/ SetSearch(<< >>) /\ UNCHANGED deleted
    \/ \E row \in 1..2 : ToggleTask(row, "ok") /\ UNCHANGED deleted
    \/ \E row \in 1..2 : AskDelete(row) /\ UNCHANGED deleted
    \/ \E yes \in BOOLEAN : AnswerDelete(yes, "ok") /\ UNCHANGED deleted
    \/ \E row \in 1..2 : OpenEdit(row) /\ UNCHANGED deleted
    \/ \E inp \in EditInputs :
          SaveChanges(inp, "ok") /\ UNCHANGED deleted
    \/ Restart /\ UNCHANGED deleted

SpecEvents == InitEvents /\ [][NextEvents]_vars

\* SpecDates: sessions on one day and on later days; no task is deleted,
\* so an id stands for one task throughout.
NextDates ==
    \/ \E inp \in ValidAddInputs :
          AddTask(inp, "ok") /\ UNCHANGED deleted
    \/ \E row \in 1..MaxTasks :
          ToggleTask(row, "ok") /\ UNCHANGED deleted
    \/ \E row \in 1..MaxTasks : OpenEdit(row) /\ UNCHANGED deleted
    \/ \E inp \in EditInputs :
          SaveChanges(inp, "ok") /\ UNCHANGED deleted
    \/ SetSearch(<< >>) /\ UNCHANGED deleted
    \/ Tick /\ UNCHANGED deleted
    \/ Restart /\ UNCHANGED deleted

SpecDates == Init /\ [][NextDates]_vars

(***************************************************************************)
(* The claims.                                                             *)
(***************************************************************************)
\* The fields of a task the round trip is about.
Fields(task) ==
    [id |-> task.id, title |-> task.title, description |-> task.description,
     category |-> task.category, deadline |-> task.deadline,
     completed |-> task.completed]

FieldsOf(ts) == [i \in 1..Len(ts) |-> Fields(ts[i])]

\* C1: in every state reached by add, delete, toggle and edit, saving the
\* store and loading the written file into a fresh store, on the same day or
\* on the next, gives tasks with the same ids, titles, descriptions,
\* categories, deadlines and completion flags, in the same order.
C1_RoundTrip ==
    \A t \in {now, NextDay(now)} :
        FieldsOf(load_tasks(save_tasks(tasks, file, "ok"), t)) = FieldsOf(tasks)

\* A restart has loaded a store of two tasks, one completed, one edited
\* to an empty title.
C1_Witness ==
    /\ last.op = "start"
    /\ Len(tasks) = 2
    /\ \E i \in 1..2 : tasks[i].completed
    /\ \E i \in 1..2 : tasks[i].title = << >>
    /\ \E i \in 1..2 : tasks[i].title # << >>

\* C2: a task that "add" creates is appended with an id above every id in
\* the store: 1 if the store is empty, else one plus the id of some task.
C2_IdAssignment ==
    [][last'.op = "add" =>
        /\ Len(tasks') = Len(tasks) + 1
        /\ LET new == tasks'[Len(tasks')]
           IN  /\ \A i \in 1..Len(tasks) : tasks[i].id < new.id
               /\ tasks = << >> => new.id = 1
               /\ tasks # << >> => \E i \in 1..Len(tasks) : new.id = tasks[i].id + 1
      ]_vars

\* After a delete, a task was added to a store whose ids were not 1..n.
C2_Witness ==
    /\ last.op = "add"
    /\ Len(tasks) = 2
    /\ tasks[1].id = 2
    /\ tasks[2].id = 3

\* C3 as claimed: "add" never gives a new task the id of a deleted task.
C3_NeverReused ==
    [][last'.op = "add" => tasks'[Len(tasks')].id \notin deleted]_vars

\* C3 as amended: the ids given so far, to the tasks in the store and to
\* the deleted ones, are 1 up to the greatest of them; "add" gives the new
\* task the id of a deleted task exactly when a deleted id is above the id
\* of every task in the store, and the id it gives is then the least id
\* above those, not the greatest deleted one.
C3_ReusedExactlyAbovePresent ==
    [][last'.op = "add" =>
        LET new == tasks'[Len(tasks')].id
            above == {d \in deleted : \A i \in 1..Len(tasks) : tasks[i].id < d}
        IN  /\ \E k \in 0..MaxId : task_ids(tasks) \cup deleted = 1..k
            /\ new \in deleted <=> above # {}
            /\ above # {} => \A d \in above : new <= d
      ]_vars

\* A task was added with the id of a deleted task, beside an older task.
C3_Witness ==
    /\ last.op = "add"
    /\ Len(tasks) = 2
    /\ tasks[2].id \in deleted

\* C4: the ids of the tasks in the store are positive and pairwise distinct.
C4_IdsUniquePositive ==
    /\ \A i \in 1..Len(tasks) : tasks[i].id > 0
    /\ \A i, j \in 1..Len(tasks) : i # j => tasks[i].id # tasks[j].id

\* A restart has loaded two tasks created around a delete.
C4_Witness ==
    /\ last.op = "start"
    /\ Len(tasks) = 2
    /\ tasks[1].id = 2

\* The keys of a dict of the file.
FileKeys ==
    {"id", "title", "description", "category", "completed", "created_date",
     "type", "deadline"}

\* C5: after a handler whose file write succeeded, the file holds one dict
\* for each task of the store, in order, with every field of the task.
C5_DurableMirror ==
    last.wrote = "ok" =>
        /\ file.kind = "json"
        /\ Len(file.data) = Len(tasks)
        /\ \A i \in 1..Len(tasks) :
              /\ DOMAIN file.data[i] = FileKeys
              /\ file.data[i]["id"] = tasks[i].id
              /\ file.data[i]["title"] = tasks[i].title
              /\ file.data[i]["description"] = tasks[i].description
              /\ file.data[i]["category"] = tasks[i].category
              /\ file.data[i]["completed"] = tasks[i].completed
              /\ file.data[i]["created_date"] = tasks[i].created_date
              /\ file.data[i]["deadline"] = tasks[i].deadline
              /\ file.data[i]["type"] = "DeadlineTask"

\* A delete was written after an earlier write had failed.
C5_Witness ==
    /\ last.op = "delete"
    /\ last.wrote = "ok"
    /\ failures > 0
    /\ tasks # << >>

\* C6: delete_task and toggle_task with an index below 0 or past the last
\* task change neither the tasks nor the file, and do not call save_tasks.
C6_BoundsSafety ==
    [][(/\ last'.op \in {"delete_task", "toggle_task"}
        /\ (last'.index < 0 \/ last'.index >= Len(tasks))) =>
          (/\ tasks' = tasks /\ shared' = shared
           /\ file' = file /\ last'.wrote = "none")]_vars

\* delete_task was called with the number of tasks as index, on two tasks.
C6_Witness ==
    /\ last.op = "delete_task"
    /\ last.index = Len(tasks)
    /\ last.wrote = "none"
    /\ Len(tasks) = 2

\* C7: completed is a boolean; toggle_task at a valid index flips it, and a
\* second toggle_task at that index gives the tasks back as they were.
C7_ToggleInvolution ==
    \A p \in 0..(Len(tasks) - 1) :
        LET once == toggle_task(tasks, shared, file, p, "ok").tasks
            twice == toggle_task(once, shared, file, p, "ok").tasks
        IN  /\ tasks[p + 1].completed \in BOOLEAN
            /\ once[p + 1].completed = ~tasks[p + 1].completed
            /\ twice = tasks

\* A toggle has just set a task back to not completed.
C7_Witness ==
    /\ last.op = "toggle"
    /\ ~tasks[last.index + 1].completed
    /\ \E i \in 1..Len(tasks) : tasks[i].completed

\* s contains x, case-insensitively.
ContainsCI(s, x) == Contains(Lower(s), Lower(x))

\* The positions, from 0, of the tasks one of whose title, description and
\* category contains x.
RECURSIVE PositionsWith(_, _, _)
PositionsWith(ts, idx, x) ==
    IF idx >= Len(ts) THEN << >>
    ELSE IF \/ ContainsCI(ts[idx + 1].title, x)
            \/ ContainsCI(ts[idx + 1].description, x)
            \/ ContainsCI(ts[idx + 1].category, x)
         THEN <<idx>> \o PositionsWith(ts, idx + 1, x)
         ELSE PositionsWith(ts, idx + 1, x)

\* C8 as claimed: after the list is rebuilt for the filter text x, its rows
\* are, in order and each under its position, the tasks one of whose title,
\* description and category contains x case-insensitively.
C8_FilterCorrect ==
    last.op = "search" =>
        LET want == PositionsWith(tasks, 0, search)
        IN  /\ Len(tree) = Len(want)
            /\ \A r \in 1..Len(tree) :
                  /\ tree[r].iid = IntToStr(want[r])
                  /\ tree[r].title = tasks[want[r] + 1].title

\* floor(100 * done / total), stated without the division.
IsFloorPercent(p, done, total) ==
    p * total <= 100 * done /\ 100 * done < (p + 1) * total

\* round(100 * done / total), a tie going either way.
IsRoundedPercent(p, done, total) ==
    /\ 2 * (100 * done - p * total) <= total
    /\ 2 * (p * total - 100 * done) <= total

\* The counts of the status bar are those of the store.
CountsRight ==
    /\ status.total = Len(tasks)
    /\ status.done = Cardinality({i \in 1..Len(tasks) : tasks[i].completed})
    /\ status.pending = status.total - status.done
    /\ status.total = 0 => status.percent = 0

\* C9 as claimed: the summary shown has the counts of the store and the
\* percentage rounded to the nearest integer.
C9_ProgressRounded ==
    status.shown =>
        /\ CountsRight
        /\ status.total > 0 =>
              IsRoundedPercent(status.percent, status.done, status.total)

\* C9 as amended: the summary shown has the counts of the store and the
\* percentage rounded down.
C9_ProgressFloor ==
    status.shown =>
        /\ CountsRight
        /\ status.total > 0 =>
              IsFloorPercent(status.percent, status.done, status.total)

\* The summary of three tasks with two completed shows 66.
C9_Witness ==
    /\ status.shown
    /\ status.total = 3
    /\ status.done = 2
    /\ status.pending = 1
    /\ status.percent = 66

\* The calendar days from the current date to the deadline.
CalendarDaysAhead(dl, t) == ToOrdinal(dl.y, dl.m, dl.d) - ToOrdinal(t.y, t.m, t.d)

\* C10 as claimed: in the list just rebuilt, a completed task is "done"; a
\* task not completed whose deadline parses is "urgent" exactly when the
\* deadline is fewer than 3 calendar days ahead of the current date, at any
\* time of day; one whose deadline does not parse is "pending".
C10_UrgencyByDate ==
    last.op \in {"search", "toggle"} =>
        \A r \in 1..Len(tree) :
            LET task == tasks[StrToInt(tree[r].iid) + 1]
                dl == Strptime(task.deadline)
            IN  tree[r].status =
                    IF task.completed THEN "done"
                    ELSE IF dl.ok /\ CalendarDaysAhead(dl, now) < 3
                         THEN "urgent" ELSE "pending"

\* Content of the file that is not a sequence of records carrying id, title
\* and description.
InvalidContent(f) ==
    \/ f.kind \in {"garbage", "json_number"}
    \/ /\ f.kind = "json"
       /\ \E i \in 1..Len(f.data) :
              \E k \in {"id", "title", "description"} : k \notin DOMAIN f.data[i]

\* C11: no start of the program raises out of the load, and a start on an
\* absent file or on a file of invalid content gives an empty store.
C11_LoadNeverRaises ==
    /\ last.op # "start_raised"
    /\ (last.op = "start" /\ (file.kind = "absent" \/ InvalidContent(file)))
          => tasks = << >>

\* C12: an "add" whose title is empty after trimming, whose deadline is
\* empty or whose deadline is no DD-MM-YYYY calendar date is rejected, and a
\* rejection changes neither the tasks nor the file; so every task "add"
\* appends has, when appended, a title that is not empty and a deadline
\* that parses.
C12_CreateValidation ==
    [][/\ last'.op = "add_rejected" => (tasks' = tasks /\ file' = file)
       /\ last'.op = "add" =>
              LET new == tasks'[Len(tasks')]
              IN  /\ new.title # << >>
                  /\ Strip(new.title) = new.title
                  /\ new.deadline # << >>
                  /\ Strptime(new.deadline).ok]_vars

\* An "add" has been rejected in a store that holds a task an earlier
\* "add" put there and wrote.
C12_Witness ==
    /\ last.op = "add_rejected"
    /\ Len(tasks) = 1
    /\ tasks[1].title # << >>
    /\ file.kind = "json" /\ Len(file.data) = 1

\* The effect of the handler op at index on the tasks, whatever its write.
EffectKept(op, index, before, after) ==
    CASE op = "add" ->
            /\ Len(after) = Len(before) + 1
            /\ SubSeq(after, 1, Len(before)) = before
      [] op = "delete" ->
            /\ Len(after) = Len(before) - 1
            /\ \A i \in 1..Len(after) :
                  after[i] = IF i <= index THEN before[i] ELSE before[i + 1]
      [] op = "toggle" ->
            /\ Len(after) = Len(before)
            /\ after[index + 1].completed = ~before[index + 1].completed
      [] op = "edit" ->
            /\ Len(after) = Len(before)
            /\ index < 0 => after = before
            /\ index >= 0 =>
                  \E inp \in EditInputs :
                     /\ after[index + 1].title = Strip(inp.title)
                     /\ after[index + 1].description = Strip(inp.description)
                     /\ after[index + 1].deadline = Strip(inp.deadline)
      [] OTHER -> FALSE

\* C14: a handler whose file write fails ends as a handler does, with its
\* effect on the tasks kept; and a handler whose write succeeds after an
\* earlier write failed leaves the file holding the dict of every task of
\* the store, in order.
C14_WriteFailureRecovery ==
    [][/\ last'.wrote \in {"denied", "partial"} =>
              EffectKept(last'.op, last'.index, tasks, tasks')
       /\ (last'.wrote = "ok" /\ failures > 0) =>
              /\ EffectKept(last'.op, last'.index, tasks, tasks')
              /\ file' = [kind |-> "json",
                          data |-> [i \in 1..Len(tasks') |-> to_dict(tasks'[i])]]
      ]_vars

\* A toggle was written to a file that an earlier failed write had left
\* behind the store of two tasks.
C14_Witness ==
    /\ last.op = "toggle"
    /\ last.wrote = "ok"
    /\ failures = MaxWriteFailures
    /\ Len(tasks) = 2
    /\ file.kind = "json" /\ Len(file.data) = 2

\* C15: the created_date of a task is the same after every step as before
\* it: a toggle, an edit, a write, and a reload on the same or a later day.
C15_CreatedDateImmutable ==
    [][\A i \in 1..Len(tasks), j \in 1..Len(tasks') :
          tasks[i].id = tasks'[j].id =>
              tasks'[j].created_date = tasks[i].created_date]_vars

\* C16: "Simpan" in an edit dialog whose task is at a valid position sets
\* the title, the description and the deadline of that task to the trimmed
\* entries, with no check of them, and leaves that task's id, category,
\* completed flag and created_date, every other task and the length and
\* order of the store as they were; the file then holds every task of the
\* store. The dialog is open on a task of the store whenever "Simpan" is
\* pressed.
C16_EditFrame ==
    [][last'.op = "edit" =>
          LET p == last'.index + 1
          IN  /\ p \in 1..Len(tasks)
              /\ \E d \in 1..Len(dialogs) :
                    /\ dialogs[d].at = last'.index
                    /\ tasks[p].id = dialogs[d].task
              /\ Len(tasks') = Len(tasks)
              /\ \A i \in 1..Len(tasks) : i # p => tasks'[i] = tasks[i]
              /\ tasks'[p].id = tasks[p].id
              /\ tasks'[p].category = tasks[p].category
              /\ tasks'[p].completed = tasks[p].completed
              /\ tasks'[p].created_date = tasks[p].created_date
              /\ \E inp \in EditInputs :
                    /\ tasks'[p].title = Strip(inp.title)
                    /\ tasks'[p].description = Strip(inp.description)
                    /\ tasks'[p].deadline = Strip(inp.deadline)
              /\ file'.kind = "json"
              /\ Len(file'.data) = Len(tasks')
              /\ \A i \in 1..Len(tasks') :
                    /\ file'.data[i]["id"] = tasks'[i].id
                    /\ file'.data[i]["title"] = tasks'[i].title
                    /\ file'.data[i]["description"] = tasks'[i].description
                    /\ file'.data[i]["deadline"] = tasks'[i].deadline
                    /\ file'.data[i]["completed"] = tasks'[i].completed]_vars

\* The second of two tasks, a completed one, has just been edited to an
\* empty title and a deadline that is no date, next to a task not edited.
C16_Witness ==
    /\ last.op = "edit"
    /\ last.index = 1
    /\ Len(tasks) = 2
    /\ tasks[2].title = << >>
    /\ ~Strptime(tasks[2].deadline).ok
    /\ tasks[2].completed
    /\ tasks[1].title # << >>

\* C17: "add" puts the new task last and changes no task of the store;
\* "delete" at a valid position takes out the task there and keeps the
\* others in their order; toggle and edit keep the tasks in their places.
\* Hence the tasks are always in the order they were added in, which the
\* ids show: each is above the ids of the tasks before it.
C17_InsertionOrder ==
    [][/\ last'.op = "add" =>
              /\ Len(tasks') = Len(tasks) + 1
              /\ \A i \in 1..Len(tasks) : tasks'[i] = tasks[i]
       /\ last'.op = "delete" =>
              /\ InRange(tasks, last'.index)
              /\ Len(tasks') = Len(tasks) - 1
              /\ \A i \in 1..Len(tasks') :
                    tasks'[i] = IF i <= last'.index THEN tasks[i]
                                ELSE tasks[i + 1]
       /\ last'.op \in {"toggle", "edit"} =>
              /\ Len(tasks') = Len(tasks)
              /\ \A i \in 1..Len(tasks) : tasks'[i].id = tasks[i].id
       /\ \A i, j \in 1..Len(tasks') : i < j => tasks'[i].id < tasks'[j].id
      ]_vars

\* The first of two tasks was deleted and a third task added: the store
\* holds the second and the third, in that order.
C17_Witness ==
    /\ last.op = "add"
    /\ Len(tasks) = 2
    /\ tasks[1].id = 2
    /\ tasks[2].id = 3

\* The handle of each row of tr is the index in ts of the task the row
\* shows, and the rows go up the store.
HandlesCurrent(tr, ts) ==
    \A r \in 1..Len(tr) :
        LET idx == StrToInt(tr[r].iid)
        IN  /\ idx \in 0..(Len(ts) - 1)
            /\ tr[r].number = idx + 1
            /\ tr[r].title = ts[idx + 1].title
            /\ tr[r].category = ts[idx + 1].category
            /\ tr[r].deadline = ts[idx + 1].deadline
            /\ \A q \in 1..(r - 1) : StrToInt(tr[q].iid) < idx

\* C18: after every step the handle of every row of the list is the
\* current index of the task the row shows; a toggle acts at the handle of
\* a row that is shown, on the task at that index and on no other; a
\* delete that was confirmed takes out the task its row showed when it was
\* asked for, and no other; "Simpan" changes the task its dialog was
\* opened on, and no other; and no handler is given a position out of
\* range, so the lookups tasks[index] of _edit_task and _delete_task never
\* raise.
C18_NoStaleHandles ==
    [][/\ HandlesCurrent(tree', tasks')
       /\ last'.op \notin {"edit_raised", "delete_raised"}
       /\ last'.op \in {"edit_open", "delete_ask"} =>
              InRange(tasks, last'.index)
       /\ last'.op = "toggle" =>
              /\ \E row \in 1..Len(tree) :
                    StrToInt(tree[row].iid) = last'.index
              /\ InRange(tasks, last'.index)
              /\ LET p == last'.index + 1
                 IN  /\ tasks'[p].id = tasks[p].id
                     /\ tasks'[p] # tasks[p]
                     /\ \A i \in 1..Len(tasks) :
                           i # p => tasks'[i] = tasks[i]
       /\ last'.op = "delete" =>
              LET asked == pending[Len(pending)]
              IN  /\ InRange(tasks, asked.index)
                  /\ tasks[asked.index + 1].id = asked.task
                  /\ task_ids(tasks') = task_ids(tasks) \ {asked.task}
       /\ last'.op = "edit" =>
              \E d \in 1..Len(dialogs) :
                 /\ dialogs[d].at = last'.index
                 /\ InRange(tasks, last'.index)
                 /\ \A i \in 1..Len(tasks) :
                       tasks'[i] # tasks[i] => tasks[i].id = dialogs[d].task
      ]_vars

\* With the filter hiding the first of two tasks, the one row shown has
\* the handle 1, and a toggle on it has just completed the second task.
C18_Witness ==
    /\ last.op = "toggle"
    /\ last.index = 1
    /\ Len(tasks) = 2
    /\ search # << >>
    /\ Len(tree) = 1
    /\ tree[1].iid = <<"1">>
    /\ tasks[2].completed
    /\ ~tasks[1].completed
====
